---- MODULE Spec2Model ----
(***************************************************************************)
(* Polyglot Pal: the Genkit flows (correct-writing in its three versions,  *)
(* summarize-content, translate-content) and the CorrectionInterface that  *)
(* calls them.  A flow invocation validates its input against the flow's   *)
(* input schema, runs the flow body (one prompt call to the external       *)
(* model), validates what the body returns against the output schema and   *)
(* resolves or rejects the caller's promise.                               *)
(***************************************************************************)
EXTENDS Integers, Sequences, FiniteSets, TLC

\* ------------------------------------------------------------------ bounds
\* Number of flow invocations that can be in progress at the same time.
MaxInv == 1
\* The same where the invocations' interleavings are what is examined.
MaxConc == 2

\* ------------------------------------------------------------- JSON values
\* A JSON value carries its runtime type: typeof x === "string" is x.k = "str".
Str(s) == [k |-> "str", s |-> s]
Num == [k |-> "num"]
Bool(b) == [k |-> "bool", b |-> b]
Obj(f) == [k |-> "obj", f |-> f]
Arr(e) == [k |-> "arr", e |-> e]
Null == [k |-> "null"]
\* The object with no key.
NoFields == <<>>

\* ------------------------------------------------------------- zod schemas
ZString == [t |-> "string", optional |-> FALSE]
ZBoolean == [t |-> "boolean", optional |-> FALSE]
ZEnum(vals) == [t |-> "enum", optional |-> FALSE, of |-> vals]
ZArray(item) == [t |-> "array", optional |-> FALSE, item |-> item]
ZObject(fields) == [t |-> "object", optional |-> FALSE, fields |-> fields]
\* schema.default(d): a missing key parses to d.
ZDefault(s, d) == [t |-> "default", optional |-> TRUE, inner |-> s, dflt |-> d]
\* schema.optional(): a missing key is accepted and stays missing.
ZOptional(s) == [t |-> "optional", optional |-> TRUE, inner |-> s]

RECURSIVE Conforms(_, _)
\* Does value v satisfy schema s (safeParse(v).success)?
Conforms(s, v) ==
  CASE s.t = "string" -> v.k = "str"
    [] s.t = "boolean" -> v.k = "bool"
    [] s.t = "enum" -> v.k = "str" /\ v.s \in s.of
    [] s.t = "default" -> Conforms(s.inner, v)
    [] s.t = "optional" -> Conforms(s.inner, v)
    [] s.t = "array" -> v.k = "arr" /\ \A i \in DOMAIN v.e : Conforms(s.item, v.e[i])
    [] s.t = "object" ->
         /\ v.k = "obj"
         /\ \A n \in DOMAIN s.fields :
              IF n \in DOMAIN v.f THEN Conforms(s.fields[n], v.f[n])
              ELSE s.fields[n].optional

\* ------------------------------------------------- flow schemas (latest)
\* Mutant: `language` declared z.string().optional().
CorrectWritingInputSchemaLanguageOptional ==
  ZObject([text |-> ZString,
           language |-> ZOptional(ZString),
           correctionLevel |-> ZOptional(ZDefault(ZEnum({"gentle", "standard", "strict"}), Str("standard"))),
           flagGrammar |-> ZOptional(ZDefault(ZBoolean, Bool(TRUE))),
           flagSpelling |-> ZOptional(ZDefault(ZBoolean, Bool(TRUE))),
           flagPunctuation |-> ZOptional(ZDefault(ZBoolean, Bool(TRUE))),
           flagStyle |-> ZOptional(ZDefault(ZBoolean, Bool(FALSE))),
           analyzeTone |-> ZOptional(ZDefault(ZBoolean, Bool(FALSE))),
           explainIdioms |-> ZOptional(ZDefault(ZBoolean, Bool(FALSE))),
           suggestStructureVariations |-> ZOptional(ZDefault(ZBoolean, Bool(FALSE)))])

CorrectWritingInputSchema ==
  ZObject([text |-> ZString,
           language |-> ZString,
           correctionLevel |-> ZOptional(ZDefault(ZEnum({"gentle", "standard", "strict"}), Str("standard"))),
           flagGrammar |-> ZOptional(ZDefault(ZBoolean, Bool(TRUE))),
           flagSpelling |-> ZOptional(ZDefault(ZBoolean, Bool(TRUE))),
           flagPunctuation |-> ZOptional(ZDefault(ZBoolean, Bool(TRUE))),
           flagStyle |-> ZOptional(ZDefault(ZBoolean, Bool(FALSE))),
           analyzeTone |-> ZOptional(ZDefault(ZBoolean, Bool(FALSE))),
           explainIdioms |-> ZOptional(ZDefault(ZBoolean, Bool(FALSE))),
           suggestStructureVariations |-> ZOptional(ZDefault(ZBoolean, Bool(FALSE)))])

VocabularyItemSchema == ZObject([term |-> ZString, explanation |-> ZString])

ToneAnalysisSchema == ZObject([detectedTone |-> ZString, suggestions |-> ZOptional(ZString)])

IdiomExplanationSchema ==
  ZObject([idiom |-> ZString, meaning |-> ZString, example |-> ZOptional(ZString)])

\* Mutant: `correctedText` declared z.string().optional().
CorrectWritingOutputSchemaTextOptional ==
  ZObject([correctedText |-> ZOptional(ZString),
           explanation |-> ZOptional(ZString),
           keyVocabulary |-> ZOptional(ZArray(VocabularyItemSchema)),
           toneAnalysis |-> ZOptional(ToneAnalysisSchema),
           idiomExplanations |-> ZOptional(ZArray(IdiomExplanationSchema)),
           structureSuggestions |-> ZOptional(ZString)])

CorrectWritingOutputSchema ==
  ZObject([correctedText |-> ZString,
           explanation |-> ZOptional(ZString),
           keyVocabulary |-> ZOptional(ZArray(VocabularyItemSchema)),
           toneAnalysis |-> ZOptional(ToneAnalysisSchema),
           idiomExplanations |-> ZOptional(ZArray(IdiomExplanationSchema)),
           structureSuggestions |-> ZOptional(ZString)])

\* ------------------------------------- earlier versions of correct-writing
CorrectWritingInputSchemaV1 == ZObject([text |-> ZString, language |-> ZString])

CorrectWritingOutputSchemaV1 ==
  ZObject([correctedText |-> ZString, explanation |-> ZOptional(ZString)])

CorrectWritingInputSchemaV2 ==
  ZObject([text |-> ZString,
           language |-> ZString,
           correctionLevel |-> ZOptional(ZDefault(ZEnum({"gentle", "standard", "strict"}), Str("standard"))),
           flagGrammar |-> ZOptional(ZDefault(ZBoolean, Bool(TRUE))),
           flagSpelling |-> ZOptional(ZDefault(ZBoolean, Bool(TRUE))),
           flagPunctuation |-> ZOptional(ZDefault(ZBoolean, Bool(TRUE))),
           flagStyle |-> ZOptional(ZDefault(ZBoolean, Bool(FALSE)))])

CorrectWritingOutputSchemaV2 ==
  ZObject([correctedText |-> ZString,
           explanation |-> ZOptional(ZString),
           keyVocabulary |-> ZOptional(ZArray(VocabularyItemSchema))])

\* ------------------------------------------------------- summarize-content
SummarizeContentInputSchema == ZObject([text |-> ZString, language |-> ZOptional(ZString)])

SummarizeContentOutputSchema == ZObject([summary |-> ZString])

\* ------------------------------------------------------- translate-content
\* translate-content.ts is imported by the UI but its text is not in the
\* sources; its schemas are those of the TranslationRequest/TranslationResult
\* records.
TranslateContentInputSchema == ZObject([text |-> ZString, targetLanguage |-> ZString])

TranslateContentOutputSchema == ZObject([translatedText |-> ZString])

\* ------------------------------------------------------------------- flows
Flows == {"correctWriting", "correctWritingV1", "correctWritingV2",
          "summarizeContent", "translateContent"}

\* defineFlow({inputSchema: ...})
InputSchema(flow) ==
  CASE flow = "correctWriting" -> CorrectWritingInputSchema
    [] flow = "correctWritingV1" -> CorrectWritingInputSchemaV1
    [] flow = "correctWritingV2" -> CorrectWritingInputSchemaV2
    [] flow = "summarizeContent" -> SummarizeContentInputSchema
    [] flow = "translateContent" -> TranslateContentInputSchema

\* defineFlow({outputSchema: ...})
OutputSchema(flow) ==
  CASE flow = "correctWriting" -> CorrectWritingOutputSchema
    [] flow = "correctWritingV1" -> CorrectWritingOutputSchemaV1
    [] flow = "correctWritingV2" -> CorrectWritingOutputSchemaV2
    [] flow = "summarizeContent" -> SummarizeContentOutputSchema
    [] flow = "translateContent" -> TranslateContentOutputSchema

\* Only the latest correctWritingFlow tests `if (!output) throw ...`; the
\* other flow bodies end in `return output!`, which checks nothing at run time.
ChecksNullOutput(flow) == flow = "correctWriting"

\* ---------------------------------------------------------- parsed arguments
\* The record the flow body and the prompt get for an argument that fits the
\* schema.  A missing key is filled only where .default() is the outermost
\* wrapper; .default(x).optional() answers a missing key before the default is
\* reached, so the key stays missing.
ParseInput(schema, f) ==
  LET filled == {n \in DOMAIN schema.fields :
                   n \notin DOMAIN f /\ schema.fields[n].t = "default"}
  IN  [n \in DOMAIN f \cup filled |-> IF n \in DOMAIN f THEN f[n] ELSE schema.fields[n].dflt]

\* ------------------------------------------------------------------ prompts
\* {{{key}}}: a string as it is, a boolean as true/false, a missing key as
\* the empty string.
Interpolate(rec, key) ==
  IF key \notin DOMAIN rec THEN ""
  ELSE CASE rec[key].k = "str" -> rec[key].s
         [] rec[key].k = "bool" -> IF rec[key].b THEN "true" ELSE "false"
         [] OTHER -> "[object Object]"

\* {{key}}: the same with the HTML characters escaped.
EscapeExpression(s) ==
  CASE s = "<" -> "&lt;"
    [] s = ">" -> "&gt;"
    [] s = "&" -> "&amp;"
    [] OTHER -> s

\* translate-content.ts: a template over the two fields of its input.
TranslateContentPrompt(rec) ==
  <<"Translate the following text to ", Interpolate(rec, "targetLanguage"),
    "Text: ", Interpolate(rec, "text")>>

\* The prompt templates, as the sequence of their literal parts and
\* interpolations (a literal part is cut to the words around the slot).
RenderPrompt(flow, rec) ==
  CASE flow = "correctWriting" ->
         <<"The user's text is in ", Interpolate(rec, "language"),
           "- Correction Level: ", Interpolate(rec, "correctionLevel"),
           "- Correct Grammar: ", Interpolate(rec, "flagGrammar"),
           "- Correct Spelling: ", Interpolate(rec, "flagSpelling"),
           "- Correct Punctuation: ", Interpolate(rec, "flagPunctuation"),
           "- Improve Style: ", Interpolate(rec, "flagStyle"),
           "- Analyze Tone: ", Interpolate(rec, "analyzeTone"),
           "- Explain Idioms: ", Interpolate(rec, "explainIdioms"),
           "- Suggest Structure Variations: ", Interpolate(rec, "suggestStructureVariations"),
           "Original Text: ", Interpolate(rec, "text")>>
    [] flow = "correctWritingV1" ->
         <<"The user language is ", Interpolate(rec, "language"),
           "Text: ", Interpolate(rec, "text")>>
    [] flow = "correctWritingV2" ->
         <<"The user's text is in ", Interpolate(rec, "language"),
           "- Correction Level: ", Interpolate(rec, "correctionLevel"),
           "- Correct Grammar: ", Interpolate(rec, "flagGrammar"),
           "- Correct Spelling: ", Interpolate(rec, "flagSpelling"),
           "- Correct Punctuation: ", Interpolate(rec, "flagPunctuation"),
           "- Improve Style: ", Interpolate(rec, "flagStyle"),
           "Original Text: ", Interpolate(rec, "text")>>
    [] flow = "summarizeContent" ->
         <<"Summarize the following text in the language it is written in: ",
           EscapeExpression(Interpolate(rec, "text"))>>
    [] flow = "translateContent" -> TranslateContentPrompt(rec)

\* ------------------------------------------------------------ input records
\* The records a caller of the exported server actions can pass.  A key that
\* is not in the record's DOMAIN is a missing key.
Field(name, v) == name :> v

TextChoices == {NoFields, Field("text", Str("")), Field("text", Str("a"))}

LanguageChoices(key) == {NoFields, Field(key, Str("English")), Field(key, Num)}

OptionChoices ==
  {NoFields,
   Field("correctionLevel", Str("strict")) @@ Field("flagGrammar", Bool(FALSE)),
   Field("correctionLevel", Str("loud")),
   Field("flagStyle", Str("yes"))}

Inputs(flow) ==
  CASE flow = "correctWriting" ->
         {t @@ l @@ o : t \in TextChoices, l \in LanguageChoices("language"), o \in OptionChoices}
    [] flow \in {"correctWritingV1", "correctWritingV2", "summarizeContent"} ->
         {t @@ l : t \in TextChoices, l \in LanguageChoices("language")}
    [] flow = "translateContent" ->
         {t @@ l : t \in TextChoices, l \in LanguageChoices("targetLanguage")}

\* ------------------------------------------------- external model responses
\* What the generation service can answer: a provider/transport error, an
\* answer that holds no object, or a JSON object of any shape.
ProviderError == [k |-> "error"]
NoObject == [k |-> "none"]
NotAnswered == [k |-> "pending"]

RequiredChoices(key) == {NoFields, Field(key, Str("x")), Field(key, Num)}

ExplanationChoices == {NoFields, Field("explanation", Str("e"))}

SectionChoices ==
  {NoFields,
   Field("toneAnalysis", Obj(Field("detectedTone", Str("formal")))),
   Field("toneAnalysis", Obj(NoFields)),
   Field("keyVocabulary", Arr(<<Obj(Field("term", Str("t")) @@ Field("explanation", Str("d")))>>)),
   Field("idiomExplanations",
         Arr(<<Obj(Field("idiom", Str("i")) @@ Field("meaning", Str("m")))>>))}

Payloads(flow) ==
  CASE flow = "correctWriting" ->
         {Obj(c @@ x) : c \in RequiredChoices("correctedText"), x \in SectionChoices}
    [] flow \in {"correctWritingV1", "correctWritingV2"} ->
         {Obj(c @@ e) : c \in RequiredChoices("correctedText"), e \in ExplanationChoices}
    [] flow = "summarizeContent" -> {Obj(c) : c \in RequiredChoices("summary")}
    [] flow = "translateContent" -> {Obj(c) : c \in RequiredChoices("translatedText")}

ModelResponses(flow) == {ProviderError, NoObject} \cup Payloads(flow)

\* ------------------------------------------------------------------- state
VARIABLES
  inv,               \* inv[i]: the flow invocation in slot i
  isLoading,         \* CorrectionInterface state
  correctionResult,
  translationResult,
  settings,
  mode,
  targetLanguage,
  formText,          \* the form's "text" value
  inputLanguage,     \* the form's "inputLanguage" value
  formErrors,        \* the fields form.formState.errors holds
  toast,             \* title of the toast raised last
  currentSettings,   \* SettingsPanel's draft
  isRecording,       \* voice input (the component with speech)
  recognition,       \* the browser's SpeechRecognition session
  isSpeaking,
  utterance          \* the SpeechSynthesisUtterance handed to speechSynthesis

voiceVars == <<isRecording, recognition, isSpeaking, utterance>>

uiVars == <<isLoading, correctionResult, translationResult, settings, mode, targetLanguage,
            formText, inputLanguage, formErrors, toast, currentSettings, voiceVars>>

vars == <<inv, uiVars>>

Slots == 1..MaxInv

NoOutcome == [status |-> "none"]
Success(v) == [status |-> "success", value |-> v]
\* A rejected promise: the caller's await throws.
Thrown(kind) == [status |-> "thrown", kind |-> kind]

Idle ==
  [pc |-> "idle", flow |-> "none", caller |-> "none", input |-> NoFields,
   validation |-> "none", parsed |-> NoFields, prompt |-> <<>>, calls |-> 0,
   response |-> NotAnswered, returned |-> Null, outcome |-> NoOutcome,
   abandoned |-> FALSE]

\* PolyglotSettings as a request's option fields.
defaultSettings ==
  [correctionLevel |-> Str("standard"),
   flagGrammar |-> Bool(TRUE),
   flagSpelling |-> Bool(TRUE),
   flagPunctuation |-> Bool(TRUE),
   flagStyle |-> Bool(FALSE),
   analyzeTone |-> Bool(TRUE),
   explainIdioms |-> Bool(TRUE),
   suggestStructureVariations |-> Bool(TRUE)]

\* Two of the values LanguageSelector offers.
languages == {"en-US", "es-ES"}

\* CorrectionInterface as it mounts.
InitUI ==
  /\ isLoading = FALSE
  /\ correctionResult = Null
  /\ translationResult = Null
  /\ settings = defaultSettings
  /\ mode = "correct"
  /\ targetLanguage = "Spanish"
  /\ formText = ""
  /\ inputLanguage = "English"
  /\ formErrors = {}
  /\ toast = "none"
  /\ currentSettings = defaultSettings
  /\ isRecording = FALSE
  /\ recognition = "inactive"
  /\ isSpeaking = FALSE
  /\ utterance = "none"

Init ==
  /\ inv = [i \in Slots |-> Idle]
  /\ InitUI

\* JavaScript's !v.
Falsy(v) == v.k = "null" \/ (v.k = "str" /\ v.s = "") \/ (v.k = "bool" /\ ~v.b)

\* ------------------------------------------------------------ flow actions
\* correctWriting(input) / summarizeContent(input) / translateContent(input):
\* the exported server action hands its argument to the flow.
Invoke(i, flow, input, caller) ==
  /\ inv[i].pc = "idle"
  /\ inv' = [inv EXCEPT ![i] = [Idle EXCEPT !.pc = "entered", !.flow = flow, !.caller = caller,
                                            !.input = input, !.validation = "pending"]]

\* Mutant: an invalid argument is answered with an error object instead of a
\* rejection.
ValidateInputReturnsError(i) ==
  /\ inv[i].pc = "entered"
  /\ IF Conforms(InputSchema(inv[i].flow), Obj(inv[i].input))
     THEN inv' = [inv EXCEPT ![i].validation = "passed", ![i].pc = "validated",
                             ![i].parsed = ParseInput(InputSchema(inv[i].flow), inv[i].input)]
     ELSE inv' = [inv EXCEPT ![i].validation = "failed", ![i].pc = "done",
                             ![i].outcome = Success(Obj(Field("error", Str("InvalidInput"))))]
  /\ UNCHANGED uiVars

\* The flow parses its argument with inputSchema before the body runs; a
\* mismatch rejects the call.
ValidateInput(i) ==
  /\ inv[i].pc = "entered"
  /\ IF Conforms(InputSchema(inv[i].flow), Obj(inv[i].input))
     THEN inv' = [inv EXCEPT ![i].validation = "passed", ![i].pc = "validated",
                             ![i].parsed = ParseInput(InputSchema(inv[i].flow), inv[i].input)]
     ELSE inv' = [inv EXCEPT ![i].validation = "failed", ![i].pc = "done",
                             ![i].outcome = Thrown("InvalidInput")]
  /\ UNCHANGED uiVars

\* Mutant: the flow is defined without inputSchema, so the body runs on the
\* raw argument.
CallPromptUnvalidated(i) ==
  /\ inv[i].pc \in {"entered", "validated"}
  /\ inv' = [inv EXCEPT ![i].calls = @ + 1, ![i].pc = "awaiting",
                        ![i].prompt = RenderPrompt(inv[i].flow, inv[i].input)]
  /\ UNCHANGED uiVars

\* Mutant: the template also interpolates how many other requests are being
\* served.
CallPromptStamped(i) ==
  /\ inv[i].pc = "validated"
  /\ inv' = [inv EXCEPT ![i].calls = @ + 1, ![i].pc = "awaiting",
                        ![i].prompt = Append(RenderPrompt(inv[i].flow, inv[i].parsed),
                                             IF \E j \in DOMAIN inv : j # i /\ inv[j].pc # "idle"
                                             THEN "busy" ELSE "")]
  /\ UNCHANGED uiVars

\* Flow body, first half: `await prompt(input)` renders the template over the
\* parsed argument and sends the one request.
CallPrompt(i) ==
  /\ inv[i].pc = "validated"
  /\ inv' = [inv EXCEPT ![i].calls = @ + 1, ![i].pc = "awaiting",
                        ![i].prompt = RenderPrompt(inv[i].flow, inv[i].parsed)]
  /\ UNCHANGED uiVars

\* The external service answers.
ModelResponds(i) ==
  /\ inv[i].pc = "awaiting"
  /\ \E r \in ModelResponses(inv[i].flow) :
       inv' = [inv EXCEPT ![i].response = r, ![i].pc = "responded"]
  /\ UNCHANGED uiVars

\* Mutant: the body catches a provider error and calls the prompt again.
ResumeBodyRetries(i) ==
  /\ inv[i].pc = "responded"
  /\ LET r == inv[i].response
         output == IF r = NoObject THEN Null ELSE r
     IN  \/ /\ r = ProviderError
            /\ inv' = [inv EXCEPT ![i].pc = "validated", ![i].response = NotAnswered]
         \/ /\ r # ProviderError
            /\ ChecksNullOutput(inv[i].flow) /\ Falsy(output)
            /\ inv' = [inv EXCEPT ![i].pc = "done", ![i].outcome = Thrown("EmptyResponse")]
         \/ /\ r # ProviderError
            /\ ~(ChecksNullOutput(inv[i].flow) /\ Falsy(output))
            /\ inv' = [inv EXCEPT ![i].pc = "returned", ![i].returned = output]
  /\ UNCHANGED uiVars

\* Mutant: the body keeps {output} in a variable of the module, which the
\* invocation that resumed last has overwritten.
ResumeBodyShared(i) ==
  /\ inv[i].pc = "responded"
  /\ LET last == CHOOSE j \in DOMAIN inv :
                   inv[j].pc = "responded" /\ \A h \in DOMAIN inv : inv[h].pc = "responded" => h <= j
         r == inv[last].response
         output == IF r = NoObject THEN Null ELSE r
     IN  \/ /\ r = ProviderError
            /\ inv' = [inv EXCEPT ![i].pc = "done", ![i].outcome = Thrown("UpstreamFailure")]
         \/ /\ r # ProviderError
            /\ ChecksNullOutput(inv[i].flow) /\ Falsy(output)
            /\ inv' = [inv EXCEPT ![i].pc = "done", ![i].outcome = Thrown("EmptyResponse")]
         \/ /\ r # ProviderError
            /\ ~(ChecksNullOutput(inv[i].flow) /\ Falsy(output))
            /\ inv' = [inv EXCEPT ![i].pc = "returned", ![i].returned = output]
  /\ UNCHANGED uiVars

\* Flow body, second half: the await resumes with the error thrown or with
\* {output}; the latest correctWritingFlow throws on a falsy output, the
\* other bodies return output as it is.
ResumeBody(i) ==
  /\ inv[i].pc = "responded"
  /\ LET r == inv[i].response
         output == IF r = NoObject THEN Null ELSE r
     IN  \/ /\ r = ProviderError
            /\ inv' = [inv EXCEPT ![i].pc = "done", ![i].outcome = Thrown("UpstreamFailure")]
         \/ /\ r # ProviderError
            /\ ChecksNullOutput(inv[i].flow) /\ Falsy(output)
            /\ inv' = [inv EXCEPT ![i].pc = "done", ![i].outcome = Thrown("EmptyResponse")]
         \/ /\ r # ProviderError
            /\ ~(ChecksNullOutput(inv[i].flow) /\ Falsy(output))
            /\ inv' = [inv EXCEPT ![i].pc = "returned", ![i].returned = output]
         \/ \* the prompt is defined with output: {schema}: depending on the
            \* Genkit release the prompt call itself rejects an object that
            \* does not fit it.
            /\ r \notin {ProviderError, NoObject}
            /\ ~Conforms(OutputSchema(inv[i].flow), r)
            /\ inv' = [inv EXCEPT ![i].pc = "done", ![i].outcome = Thrown("InvalidOutput")]
  /\ UNCHANGED uiVars

\* Mutant: the flow is defined without outputSchema.
ValidateOutputUnchecked(i) ==
  /\ inv[i].pc = "returned"
  /\ inv' = [inv EXCEPT ![i].pc = "done", ![i].outcome = Success(inv[i].returned)]
  /\ UNCHANGED uiVars

\* Mutant: the parse fills a missing `explanation` with "".
ValidateOutputDefaulting(i) ==
  /\ inv[i].pc = "returned"
  /\ IF Conforms(OutputSchema(inv[i].flow), inv[i].returned)
     THEN inv' = [inv EXCEPT ![i].pc = "done",
                             ![i].outcome = Success(Obj(inv[i].returned.f
                                                          @@ Field("explanation", Str(""))))]
     ELSE inv' = [inv EXCEPT ![i].pc = "done", ![i].outcome = Thrown("InvalidOutput")]
  /\ UNCHANGED uiVars

\* The flow parses what the body returned with outputSchema and settles the
\* caller's promise; the data is handed on as it is.
ValidateOutput(i) ==
  /\ inv[i].pc = "returned"
  /\ IF Conforms(OutputSchema(inv[i].flow), inv[i].returned)
     THEN inv' = [inv EXCEPT ![i].pc = "done", ![i].outcome = Success(inv[i].returned)]
     ELSE inv' = [inv EXCEPT ![i].pc = "done", ![i].outcome = Thrown("InvalidOutput")]
  /\ UNCHANGED uiVars

\* A caller other than the UI calls an exported server action.
DirectCall(i) ==
  /\ inv[i].pc = "idle"
  /\ \E flow \in Flows : \E input \in Inputs(flow) : Invoke(i, flow, input, "direct")
  /\ UNCHANGED uiVars

\* ... and takes the settled promise; the slot is free again.
DirectSettle(i) ==
  /\ inv[i].pc = "done" /\ inv[i].caller = "direct"
  /\ inv' = [inv EXCEPT ![i] = Idle]
  /\ UNCHANGED uiVars

Next ==
  \E i \in Slots :
    \/ DirectCall(i)
    \/ ValidateInput(i)
    \/ CallPrompt(i)
    \/ ModelResponds(i)
    \/ ResumeBody(i)
    \/ ValidateOutput(i)
    \/ DirectSettle(i)

\* The server actions and flows under callers of every kind.
Spec == Init /\ [][Next]_vars

\* ------------------------------------------------------ CorrectionInterface
\* What the user can type into the Textarea.
Texts == {"", "a"}

\* The RadioGroup's items and the checkboxes the user works in the sheet.
CorrectionLevels == {"standard", "strict"}
Checkboxes == {"analyzeTone"}

\* The Textarea's field.onChange (disabled while loading); once the form was
\* submitted react-hook-form re-validates the field on change.
TypeText ==
  /\ ~isLoading
  /\ \E t \in Texts :
       /\ formText' = t
       /\ formErrors' \in {formErrors, IF t = "" THEN {"text"} ELSE {}}
  /\ UNCHANGED <<inv, isLoading, correctionResult, translationResult, settings, mode,
                 targetLanguage, inputLanguage, toast>>
  /\ UNCHANGED <<currentSettings, voiceVars>>

\* LanguageSelector of the form's inputLanguage, shown in correct mode.
SelectInputLanguage ==
  /\ ~isLoading /\ mode = "correct"
  /\ \E l \in languages : inputLanguage' = l
  /\ UNCHANGED <<inv, isLoading, correctionResult, translationResult, settings, mode,
                 targetLanguage, formText, formErrors, toast>>
  /\ UNCHANGED <<currentSettings, voiceVars>>

\* LanguageSelector of targetLanguage, shown in translate mode.
SelectTargetLanguage ==
  /\ ~isLoading /\ mode = "translate"
  /\ \E l \in languages : targetLanguage' = l
  /\ UNCHANGED <<inv, isLoading, correctionResult, translationResult, settings, mode,
                 inputLanguage, formText, formErrors, toast>>
  /\ UNCHANGED <<currentSettings, voiceVars>>

\* formSchema: text and inputLanguage are strings of at least one character.
FormSchemaErrors ==
  (IF formText = "" THEN {"text"} ELSE {}) \cup (IF inputLanguage = "" THEN {"inputLanguage"} ELSE {})

\* Mutant: onSubmit clears only the result of the mode it runs in.
handleSubmitKeepsOtherResult(i) ==
  /\ formErrors' = FormSchemaErrors
  /\ IF FormSchemaErrors # {}
     THEN UNCHANGED <<inv, isLoading, correctionResult, translationResult, toast>>
     ELSE IF mode = "correct"
          THEN /\ correctionResult' = Null
               /\ UNCHANGED translationResult
               /\ Invoke(i, "correctWriting",
                         Field("text", Str(formText)) @@ Field("language", Str(inputLanguage))
                           @@ settings, "ui")
               /\ isLoading' = TRUE
               /\ UNCHANGED toast
          ELSE /\ translationResult' = Null
               /\ UNCHANGED correctionResult
               /\ Invoke(i, "translateContent",
                         Field("text", Str(formText))
                           @@ Field("targetLanguage", Str(targetLanguage)), "ui")
               /\ isLoading' = TRUE
               /\ UNCHANGED toast
  /\ UNCHANGED <<settings, mode, targetLanguage, formText, inputLanguage>>

\* form.handleSubmit(onSubmit): validates with formSchema and, when that
\* passes, runs onSubmit up to its await.
handleSubmit(i) ==
  /\ formErrors' = FormSchemaErrors
  /\ IF FormSchemaErrors # {}
     THEN UNCHANGED <<inv, isLoading, correctionResult, translationResult, toast>>
     ELSE /\ correctionResult' = Null
          /\ translationResult' = Null
          /\ IF mode = "correct"
             THEN /\ Invoke(i, "correctWriting",
                            Field("text", Str(formText)) @@ Field("language", Str(inputLanguage))
                              @@ settings, "ui")
                  /\ isLoading' = TRUE
                  /\ UNCHANGED toast
             ELSE IF targetLanguage = ""
                  THEN /\ toast' = "Missing Information"
                       /\ isLoading' = FALSE
                       /\ UNCHANGED inv
                  ELSE /\ Invoke(i, "translateContent",
                                 Field("text", Str(formText))
                                   @@ Field("targetLanguage", Str(targetLanguage)), "ui")
                       /\ isLoading' = TRUE
                       /\ UNCHANGED toast
  /\ UNCHANGED <<settings, mode, targetLanguage, formText, inputLanguage>>

\* Mutant: the submit button is not disabled while loading.
SubmitNotDisabled(i) == handleSubmit(i) /\ UNCHANGED <<currentSettings, voiceVars>>

\* The submit button, disabled while loading.
Submit(i) == ~isLoading /\ handleSubmit(i) /\ UNCHANGED <<currentSettings, voiceVars>>

\* Mutant: the continuation brings the UI back to the mode of its request.
ResumeRestoresMode(i) ==
  /\ inv[i].pc = "done" /\ inv[i].caller = "ui"
  /\ inv' = [inv EXCEPT ![i] = Idle]
  /\ isLoading' = FALSE
  /\ mode' = IF inv[i].flow = "correctWriting" THEN "correct" ELSE "translate"
  /\ IF inv[i].flow = "correctWriting"
     THEN IF inv[i].outcome.status = "success"
          THEN /\ correctionResult' = inv[i].outcome.value
               /\ UNCHANGED <<translationResult, toast>>
          ELSE /\ toast' = "Error Correcting Text"
               /\ UNCHANGED <<correctionResult, translationResult>>
     ELSE IF inv[i].outcome.status = "success"
          THEN /\ translationResult' = inv[i].outcome.value.f.translatedText
               /\ UNCHANGED <<correctionResult, toast>>
          ELSE /\ toast' = "Error Translating Text"
               /\ UNCHANGED <<correctionResult, translationResult>>
  /\ UNCHANGED <<settings, targetLanguage, formText, inputLanguage, formErrors>>
  /\ UNCHANGED <<currentSettings, voiceVars>>

\* Mutant: the setter runs after the try block, on what the call left behind.
ResumeStoresAfterCatch(i) ==
  /\ inv[i].pc = "done" /\ inv[i].caller = "ui"
  /\ inv' = [inv EXCEPT ![i] = Idle]
  /\ isLoading' = FALSE
  /\ IF inv[i].flow = "correctWriting"
     THEN /\ correctionResult' = IF inv[i].outcome.status = "success"
                                 THEN inv[i].outcome.value ELSE Obj(NoFields)
          /\ toast' = IF inv[i].outcome.status = "success" THEN toast
                      ELSE "Error Correcting Text"
          /\ UNCHANGED translationResult
     ELSE /\ translationResult' = IF inv[i].outcome.status = "success"
                                  THEN inv[i].outcome.value.f.translatedText ELSE Str("")
          /\ toast' = IF inv[i].outcome.status = "success" THEN toast
                      ELSE "Error Translating Text"
          /\ UNCHANGED correctionResult
  /\ UNCHANGED <<settings, mode, targetLanguage, formText, inputLanguage, formErrors>>
  /\ UNCHANGED <<currentSettings, voiceVars>>

\* Mutant: the catch block only logs the error.
ResumeSilentOnFailure(i) ==
  /\ inv[i].pc = "done" /\ inv[i].caller = "ui"
  /\ inv' = [inv EXCEPT ![i] = Idle]
  /\ isLoading' = FALSE
  /\ IF inv[i].outcome.status = "success"
     THEN IF inv[i].flow = "correctWriting"
          THEN /\ correctionResult' = inv[i].outcome.value
               /\ UNCHANGED <<translationResult, toast>>
          ELSE /\ translationResult' = inv[i].outcome.value.f.translatedText
               /\ UNCHANGED <<correctionResult, toast>>
     ELSE UNCHANGED <<correctionResult, translationResult, toast>>
  /\ UNCHANGED <<settings, mode, targetLanguage, formText, inputLanguage, formErrors>>
  /\ UNCHANGED <<currentSettings, voiceVars>>

\* Mutant: setIsLoading(false) is the last statement of the try block.
ResumeUnlocksOnSuccessOnly(i) ==
  /\ inv[i].pc = "done" /\ inv[i].caller = "ui"
  /\ inv' = [inv EXCEPT ![i] = Idle]
  /\ isLoading' = (inv[i].outcome.status # "success")
  /\ IF inv[i].flow = "correctWriting"
     THEN IF inv[i].outcome.status = "success"
          THEN /\ correctionResult' = inv[i].outcome.value
               /\ UNCHANGED <<translationResult, toast>>
          ELSE /\ toast' = "Error Correcting Text"
               /\ UNCHANGED <<correctionResult, translationResult>>
     ELSE IF inv[i].outcome.status = "success"
          THEN /\ translationResult' = inv[i].outcome.value.f.translatedText
               /\ UNCHANGED <<correctionResult, toast>>
          ELSE /\ toast' = "Error Translating Text"
               /\ UNCHANGED <<correctionResult, translationResult>>
  /\ UNCHANGED <<settings, mode, targetLanguage, formText, inputLanguage, formErrors>>
  /\ UNCHANGED <<currentSettings, voiceVars>>

\* onSubmit after its await: the result is stored, or the catch block raises
\* the error toast; then setIsLoading(false).
Resume(i) ==
  /\ inv[i].pc = "done" /\ inv[i].caller = "ui"
  /\ inv' = [inv EXCEPT ![i] = Idle]
  /\ isLoading' = FALSE
  /\ IF inv[i].flow = "correctWriting"
     THEN IF inv[i].outcome.status = "success"
          THEN /\ correctionResult' = inv[i].outcome.value
               /\ UNCHANGED <<translationResult, toast>>
          ELSE /\ toast' = "Error Correcting Text"
               /\ UNCHANGED <<correctionResult, translationResult>>
     ELSE IF inv[i].outcome.status = "success"
          THEN /\ translationResult' = inv[i].outcome.value.f.translatedText
               /\ UNCHANGED <<correctionResult, toast>>
          ELSE /\ toast' = "Error Translating Text"
               /\ UNCHANGED <<correctionResult, translationResult>>
  /\ UNCHANGED <<settings, mode, targetLanguage, formText, inputLanguage, formErrors>>
  /\ UNCHANGED <<currentSettings, voiceVars>>

\* SettingsPanel is rendered in correct mode, also while a request is pending.
\* The RadioGroup's onValueChange writes the level into the draft.
onValueChange ==
  /\ mode = "correct"
  /\ \E value \in CorrectionLevels :
       currentSettings' = [currentSettings EXCEPT !.correctionLevel = Str(value)]
  /\ UNCHANGED <<inv, isLoading, correctionResult, translationResult, settings, mode,
                 targetLanguage, formText, inputLanguage, formErrors, toast, voiceVars>>

\* Mutant: the checkbox writes into the saved settings as well.
onCheckedChangeWritesThrough ==
  /\ mode = "correct"
  /\ \E key \in Checkboxes, checked \in BOOLEAN :
       /\ currentSettings' = [currentSettings EXCEPT ![key] = Bool(checked)]
       /\ settings' = [settings EXCEPT ![key] = Bool(checked)]
  /\ UNCHANGED <<inv, isLoading, correctionResult, translationResult, mode,
                 targetLanguage, formText, inputLanguage, formErrors, toast, voiceVars>>

\* A checkbox's onCheckedChange writes !!checked into the draft.
onCheckedChange ==
  /\ mode = "correct"
  /\ \E key \in Checkboxes, checked \in BOOLEAN :
       currentSettings' = [currentSettings EXCEPT ![key] = Bool(checked)]
  /\ UNCHANGED <<inv, isLoading, correctionResult, translationResult, settings, mode,
                 targetLanguage, formText, inputLanguage, formErrors, toast, voiceVars>>

\* Mutant: the pending request reads the settings when it is sent on, not
\* when it was submitted.
handleSettingsChangeAliased(newSettings) ==
  /\ settings' = newSettings
  /\ currentSettings' = newSettings
  /\ toast' = "Settings Updated"
  /\ inv' = [i \in DOMAIN inv |->
               IF inv[i].caller = "ui" /\ inv[i].flow = "correctWriting"
               THEN [inv[i] EXCEPT !.input = newSettings @@ inv[i].input]
               ELSE inv[i]]
  /\ UNCHANGED <<isLoading, correctionResult, translationResult, mode, targetLanguage,
                 formText, inputLanguage, formErrors, voiceVars>>

\* CorrectionInterface's handleSettingsChange; the panel's effect then copies
\* the new settings into the draft.
handleSettingsChange(newSettings) ==
  /\ settings' = newSettings
  /\ currentSettings' = newSettings
  /\ toast' = "Settings Updated"
  /\ UNCHANGED <<inv, isLoading, correctionResult, translationResult, mode, targetLanguage,
                 formText, inputLanguage, formErrors, voiceVars>>

\* The sheet's Save button: onSettingsChange(currentSettings).
handleSave == mode = "correct" /\ handleSettingsChange(currentSettings)

\* Mutant: the mode change resets the form instead of clearing its errors.
handleModeChangeResetsForm ==
  /\ \E newMode \in {"correct", "translate"} \ {mode} : mode' = newMode
  /\ correctionResult' = Null
  /\ translationResult' = Null
  /\ formErrors' = {}
  /\ formText' = ""
  /\ inv' = [i \in DOMAIN inv |->
               IF inv[i].caller = "ui" THEN [inv[i] EXCEPT !.abandoned = TRUE] ELSE inv[i]]
  /\ currentSettings' = settings
  /\ UNCHANGED <<isLoading, settings, targetLanguage, inputLanguage, toast, voiceVars>>

\* Mutant: Reset brings the whole form back to its default values.
handleResetToDefaults ==
  /\ ~isLoading
  /\ formText' = ""
  /\ inputLanguage' = "English"
  /\ formErrors' = {}
  /\ correctionResult' = Null
  /\ translationResult' = Null
  /\ toast' = "Reset"
  /\ UNCHANGED <<inv, isLoading, settings, mode, targetLanguage>>
  /\ UNCHANGED <<currentSettings, voiceVars>>

\* The Tabs' onValueChange: it fires when the other tab is chosen, also while
\* a request is pending.  inv[i].abandoned records (for the claims only)
\* that the mode changed while request i was pending.  SettingsPanel is
\* rendered in correct mode only: its draft is dropped when it unmounts and
\* starts from the settings when it mounts.
handleModeChange ==
  /\ \E newMode \in {"correct", "translate"} \ {mode} : mode' = newMode
  /\ correctionResult' = Null
  /\ translationResult' = Null
  /\ formErrors' = {}
  /\ inv' = [i \in DOMAIN inv |->
               IF inv[i].caller = "ui" THEN [inv[i] EXCEPT !.abandoned = TRUE] ELSE inv[i]]
  /\ currentSettings' = settings
  /\ UNCHANGED <<isLoading, settings, targetLanguage, formText, inputLanguage, toast, voiceVars>>

\* The reset button (disabled while loading).
handleReset ==
  /\ ~isLoading
  /\ formText' = ""
  /\ formErrors' = {}
  /\ correctionResult' = Null
  /\ translationResult' = Null
  /\ toast' = "Reset"
  /\ UNCHANGED <<inv, isLoading, settings, mode, targetLanguage, inputLanguage>>
  /\ UNCHANGED <<currentSettings, voiceVars>>

NextUI ==
  \/ TypeText
  \/ SelectInputLanguage
  \/ SelectTargetLanguage
  \/ onValueChange
  \/ onCheckedChange
  \/ handleSave
  \/ handleModeChange
  \/ handleReset
  \/ \E i \in Slots :
       \/ Submit(i)
       \/ ValidateInput(i)
       \/ CallPrompt(i)
       \/ ModelResponds(i)
       \/ ResumeBody(i)
       \/ ValidateOutput(i)
       \/ Resume(i)

\* The page: every flow call comes from CorrectionInterface.
SpecUI == Init /\ [][NextUI]_vars

\* ----------------------------------------------------------- what is shown
\* Mutant: a section is rendered only while its toggle is on in the settings.
RenderedSectionsBySettings ==
  IF mode = "correct" /\ ~Falsy(correctionResult)
  THEN {n \in DOMAIN correctionResult.f :
          LET v == correctionResult.f[n]
          IN  CASE n = "correctedText" -> TRUE
                [] n = "keyVocabulary" -> Len(v.e) > 0
                [] n = "toneAnalysis" -> settings.analyzeTone = Bool(TRUE)
                [] n = "idiomExplanations" -> Len(v.e) > 0 /\ settings.explainIdioms = Bool(TRUE)
                [] n = "structureSuggestions" ->
                     ~Falsy(v) /\ settings.suggestStructureVariations = Bool(TRUE)
                [] OTHER -> ~Falsy(v)}
  ELSE {}

\* The keys of correctionResult that the correction card renders: the card
\* is there in correct mode once a result is held; correctedText always, a
\* list when it has an item, every other section when it is truthy.
RenderedSections ==
  IF mode = "correct" /\ ~Falsy(correctionResult)
  THEN {n \in DOMAIN correctionResult.f :
          LET v == correctionResult.f[n]
          IN  CASE n = "correctedText" -> TRUE
                [] n \in {"keyVocabulary", "idiomExplanations"} -> Len(v.e) > 0
                [] OTHER -> ~Falsy(v)}
  ELSE {}

\* The translation card: in translate mode once a translation is held.
RenderedTranslation ==
  IF mode = "translate" /\ ~Falsy(translationResult) THEN translationResult ELSE Null

\* ------------------------------------------------- prompts over all options
\* An option field of a request: left out, or one of its values.
Opt(name, vals) == {NoFields} \cup {Field(name, v) : v \in vals}

Booleans == {Bool(TRUE), Bool(FALSE)}

\* Valid arguments of the flows whose input schema has optional fields, over
\* every combination of them.
PromptInputs(flow) ==
  LET required == Field("text", Str("a")) @@ Field("language", Str("English"))
      level == Opt("correctionLevel", {Str("gentle"), Str("strict")})
      flags == {g @@ s @@ p @@ y :
                  g \in Opt("flagGrammar", Booleans), s \in Opt("flagSpelling", Booleans),
                  p \in Opt("flagPunctuation", Booleans), y \in Opt("flagStyle", Booleans)}
      extras == {t @@ e @@ v :
                   t \in Opt("analyzeTone", Booleans), e \in Opt("explainIdioms", Booleans),
                   v \in Opt("suggestStructureVariations", Booleans)}
  IN  CASE flow = "correctWriting" ->
             {required @@ l @@ f @@ x : l \in level, f \in flags, x \in extras}
        [] flow = "correctWritingV2" -> {required @@ l @@ f : l \in level, f \in flags}
        [] flow = "summarizeContent" ->
             {Field("text", Str("a")) @@ l : l \in Opt("language", {Str("English"), Str("Spanish")})}

PromptCall(i) ==
  /\ inv[i].pc = "idle"
  /\ \E flow \in {"correctWriting", "correctWritingV2", "summarizeContent"} :
       \E input \in PromptInputs(flow) : Invoke(i, flow, input, "direct")
  /\ UNCHANGED uiVars

NextPrompt ==
  \E i \in Slots :
    \/ PromptCall(i)
    \/ ValidateInput(i)
    \/ CallPrompt(i)
    \/ ModelResponds(i)
    \/ ResumeBody(i)
    \/ ValidateOutput(i)
    \/ DirectSettle(i)

\* The flows called with every combination of their optional fields.
SpecPrompt == Init /\ [][NextPrompt]_vars

\* ---------------------------------------------------- concurrent invocations
ConcSlots == 1..MaxConc

InitConc ==
  /\ inv = [i \in ConcSlots |-> Idle]
  /\ InitUI

ConcFlows == {"correctWritingV1", "summarizeContent"}

ConcInputs(flow) ==
  {Field("text", Str("a")) @@ l : l \in Opt("language", {Str("English")})}

\* Callers other than the UI, each with a call of its own.
ConcCall(i) ==
  /\ inv[i].pc = "idle"
  /\ \E flow \in ConcFlows : \E input \in ConcInputs(flow) : Invoke(i, flow, input, "direct")
  /\ UNCHANGED uiVars

NextConc ==
  \E i \in ConcSlots :
    \/ ConcCall(i)
    \/ ValidateInput(i)
    \/ CallPrompt(i)
    \/ ModelResponds(i)
    \/ ResumeBody(i)
    \/ ValidateOutput(i)
    \/ DirectSettle(i)

\* Several server-action calls in progress at once.
SpecConc == InitConc /\ [][NextConc]_vars

NextUIConc ==
  \/ TypeText
  \/ SelectInputLanguage
  \/ SelectTargetLanguage
  \/ onValueChange
  \/ onCheckedChange
  \/ handleSave
  \/ handleModeChange
  \/ handleReset
  \/ \E i \in ConcSlots :
       \/ Submit(i)
       \/ ValidateInput(i)
       \/ CallPrompt(i)
       \/ ModelResponds(i)
       \/ ResumeBody(i)
       \/ ValidateOutput(i)
       \/ Resume(i)

\* The page with room for more than one request of its own.
SpecUIConc == InitConc /\ [][NextUIConc]_vars

\* ------------------------------------- CorrectionInterface with speech
\* The component with voice input and read-aloud.  recognition is the state of
\* the browser's recognition session: "listening" after start(), "stopping"
\* after stop(), "ending" once its result or error was delivered, "inactive"
\* after its end event.  utterance is the utterance handed to
\* speechSynthesis.speak: "queued" until its start event, then "speaking".
InitVoice ==
  /\ inv = [i \in Slots |-> Idle]
  /\ isLoading = FALSE
  /\ correctionResult = Null
  /\ translationResult = Null
  /\ settings = defaultSettings
  /\ mode = "correct"
  /\ targetLanguage = "es-ES"
  /\ formText = ""
  /\ inputLanguage = "en-US"
  /\ formErrors = {}
  /\ toast = "none"
  /\ currentSettings = defaultSettings
  /\ isRecording = FALSE
  /\ recognition = "inactive"
  /\ isSpeaking = FALSE
  /\ utterance = "none"

\* if (isSpeaking && utteranceRef.current) { speechSynthesis.cancel();
\* setIsSpeaking(false); }: utteranceRef is set by every speakText that
\* reached speak(), so it is set whenever isSpeaking holds.
CancelSpeech ==
  IF isSpeaking
  THEN utterance' = "none" /\ isSpeaking' = FALSE
  ELSE UNCHANGED <<isSpeaking, utterance>>

\* The Textarea, disabled while loading and, in translate mode, while
\* recording.
TypeTextVoice ==
  /\ ~isLoading /\ ~(mode = "translate" /\ isRecording)
  /\ \E t \in Texts :
       /\ formText' = t
       /\ formErrors' \in {formErrors, IF t = "" THEN {"text"} ELSE {}}
  /\ UNCHANGED <<inv, isLoading, correctionResult, translationResult, settings, mode,
                 targetLanguage, inputLanguage, toast, currentSettings, voiceVars>>

\* LanguageSelector of targetLanguage, disabled while loading or recording.
SelectTargetLanguageVoice ==
  /\ ~isLoading /\ ~isRecording /\ mode = "translate"
  /\ \E l \in languages : targetLanguage' = l
  /\ UNCHANGED <<inv, isLoading, correctionResult, translationResult, settings, mode,
                 inputLanguage, formText, formErrors, toast, currentSettings, voiceVars>>

\* The submit button and onSubmit up to its await; onSubmit runs when the
\* form's validation passed.
SubmitVoice(i) ==
  /\ ~isLoading /\ ~(mode = "translate" /\ isRecording)
  /\ handleSubmit(i)
  /\ IF FormSchemaErrors = {} THEN CancelSpeech ELSE UNCHANGED <<isSpeaking, utterance>>
  /\ UNCHANGED <<currentSettings, isRecording, recognition>>

handleModeChangeVoice ==
  /\ \E newMode \in {"correct", "translate"} \ {mode} : mode' = newMode
  /\ correctionResult' = Null
  /\ translationResult' = Null
  /\ formErrors' = {}
  /\ CancelSpeech
  /\ inv' = [i \in DOMAIN inv |->
               IF inv[i].caller = "ui" THEN [inv[i] EXCEPT !.abandoned = TRUE] ELSE inv[i]]
  /\ currentSettings' = settings
  /\ UNCHANGED <<isLoading, settings, targetLanguage, formText, inputLanguage, toast,
                 isRecording, recognition>>

\* recognition.stop(): a session that is listening stops listening and goes on
\* to deliver what it has.
StopRecognition ==
  recognition' = IF recognition = "listening" THEN "stopping" ELSE recognition

handleResetVoice ==
  /\ ~isLoading
  /\ formText' = ""
  /\ formErrors' = {}
  /\ correctionResult' = Null
  /\ translationResult' = Null
  /\ IF isRecording
     THEN StopRecognition /\ isRecording' = FALSE
     ELSE UNCHANGED <<isRecording, recognition>>
  /\ CancelSpeech
  /\ toast' = "Reset"
  /\ UNCHANGED <<inv, isLoading, settings, mode, targetLanguage, inputLanguage, currentSettings>>

\* The microphone button, shown in translate mode and disabled while loading.
\* start() throws when the session of the last recording has not ended yet.
handleToggleRecording ==
  /\ mode = "translate" /\ ~isLoading
  /\ IF isRecording
     THEN /\ StopRecognition
          /\ isRecording' = FALSE
          /\ UNCHANGED toast
     ELSE IF recognition = "inactive"
          THEN /\ recognition' = "listening"
               /\ isRecording' = TRUE
               /\ toast' = "Listening..."
          ELSE /\ toast' = "Could not start listening"
               /\ isRecording' = FALSE
               /\ UNCHANGED recognition
  /\ UNCHANGED <<inv, isLoading, correctionResult, translationResult, settings, mode,
                 targetLanguage, formText, inputLanguage, formErrors, currentSettings,
                 isSpeaking, utterance>>

\* recognition.onresult: the transcript goes into the form.
RecognitionResult ==
  /\ recognition \in {"listening", "stopping"}
  /\ recognition' = "ending"
  /\ \E transcript \in Texts \ {""} : formText' = transcript
  /\ isRecording' = FALSE
  /\ toast' = "Voice input captured!"
  /\ UNCHANGED <<inv, isLoading, correctionResult, translationResult, settings, mode,
                 targetLanguage, inputLanguage, formErrors, currentSettings,
                 isSpeaking, utterance>>

\* recognition.onerror.
RecognitionError ==
  /\ recognition \in {"listening", "stopping"}
  /\ recognition' = "ending"
  /\ toast' = "Voice Error"
  /\ isRecording' = FALSE
  /\ UNCHANGED <<inv, isLoading, correctionResult, translationResult, settings, mode,
                 targetLanguage, formText, inputLanguage, formErrors, currentSettings,
                 isSpeaking, utterance>>

\* recognition.onend: the session is over, after a result or an error, after
\* stop(), or on its own when nothing was recognized.  The handler's body is
\* a comment.
RecognitionEnd ==
  /\ recognition # "inactive"
  /\ recognition' = "inactive"
  /\ UNCHANGED <<inv, isLoading, correctionResult, translationResult,
                 settings, mode, targetLanguage, formText, inputLanguage, formErrors, toast,
                 currentSettings, isRecording, isSpeaking, utterance>>

\* What the speak button of the card on screen would read: the corrected
\* text in correct mode, the translation in translate mode.  The buttons are
\* disabled while loading and without a text.
SpeakableText ==
  IF mode = "correct"
  THEN IF ~Falsy(correctionResult) /\ "correctedText" \in DOMAIN correctionResult.f
       THEN correctionResult.f["correctedText"] ELSE Null
  ELSE IF ~Falsy(translationResult) THEN translationResult ELSE Null

\* handleSpeakCorrectedText / handleSpeakTranslatedText -> speakText: a click
\* while speaking stops the speech; otherwise a new utterance is handed to
\* speechSynthesis.speak, and isSpeaking is set by its start event.
speakText ==
  /\ ~isLoading /\ ~Falsy(SpeakableText)
  /\ IF isSpeaking
     THEN /\ utterance' = "none"
          /\ isSpeaking' = FALSE
          /\ UNCHANGED toast
     ELSE /\ utterance' = "queued"
          /\ toast' \in {toast, "Voice Note"}
          /\ UNCHANGED isSpeaking
  /\ UNCHANGED <<inv, isLoading, correctionResult, translationResult, settings, mode,
                 targetLanguage, formText, inputLanguage, formErrors, currentSettings,
                 isRecording, recognition>>

\* utterance.onstart
UtteranceStart ==
  /\ utterance = "queued"
  /\ utterance' = "speaking"
  /\ isSpeaking' = TRUE
  /\ UNCHANGED <<inv, isLoading, correctionResult, translationResult, settings, mode,
                 targetLanguage, formText, inputLanguage, formErrors, toast, currentSettings,
                 isRecording, recognition>>

\* utterance.onend
UtteranceEnd ==
  /\ utterance = "speaking"
  /\ utterance' = "none"
  /\ isSpeaking' = FALSE
  /\ UNCHANGED <<inv, isLoading, correctionResult, translationResult, settings, mode,
                 targetLanguage, formText, inputLanguage, formErrors, toast, currentSettings,
                 isRecording, recognition>>

\* utterance.onerror
UtteranceError ==
  /\ utterance \in {"queued", "speaking"}
  /\ utterance' = "none"
  /\ isSpeaking' = FALSE
  /\ toast' = "Speech Error"
  /\ UNCHANGED <<inv, isLoading, correctionResult, translationResult, settings, mode,
                 targetLanguage, formText, inputLanguage, formErrors, currentSettings,
                 isRecording, recognition>>

NextVoice ==
  \/ TypeTextVoice
  \/ SelectInputLanguage
  \/ SelectTargetLanguageVoice
  \/ handleModeChangeVoice
  \/ handleResetVoice
  \/ handleToggleRecording
  \/ RecognitionResult
  \/ RecognitionError
  \/ RecognitionEnd
  \/ speakText
  \/ UtteranceStart
  \/ UtteranceEnd
  \/ UtteranceError
  \/ \E i \in Slots :
       \/ SubmitVoice(i)
       \/ ValidateInput(i)
       \/ CallPrompt(i)
       \/ ModelResponds(i)
       \/ ResumeBody(i)
       \/ ValidateOutput(i)
       \/ Resume(i)

\* The page with speech: every flow call comes from the component.  The
\* settings sheet is the one of SpecUI and reads or writes nothing of the
\* speech state; its steps are left to SpecUI.
SpecVoice == InitVoice /\ [][NextVoice]_vars

\* ------------------------------------------------------------------ progress
\* The steps of the flow and of its caller are taken when they can be; nothing
\* in the code obliges the external service to answer or bounds the wait.
Fairness ==
  \A i \in Slots :
    /\ WF_vars(ValidateInput(i))
    /\ WF_vars(CallPrompt(i))
    /\ WF_vars(ResumeBody(i))
    /\ WF_vars(ValidateOutput(i))
    /\ WF_vars(DirectSettle(i))

SpecLive == Init /\ [][Next]_vars /\ Fairness

\* ================================================================== claims
CorrectionFlows == {"correctWriting", "correctWritingV1", "correctWritingV2"}

Finished(i) == inv[i].pc = "done"

\* The key every output schema requires.
RequiredKey(flow) ==
  CASE flow \in CorrectionFlows -> "correctedText"
    [] flow = "summarizeContent" -> "summary"
    [] flow = "translateContent" -> "translatedText"

\* C1: whenever a flow invocation ends in success, the value handed to the
\* caller satisfies the flow's output schema: the required key is present as a
\* string and every optional key that is present has the declared type.
C1_SuccessSatisfiesOutputSchema ==
  \A i \in Slots :
    (Finished(i) /\ inv[i].outcome.status = "success") =>
      /\ Conforms(OutputSchema(inv[i].flow), inv[i].outcome.value)
      /\ inv[i].outcome.value.k = "obj"
      /\ RequiredKey(inv[i].flow) \in DOMAIN inv[i].outcome.value.f
      /\ inv[i].outcome.value.f[RequiredKey(inv[i].flow)].k = "str"

\* C1 witness: a correction succeeded with an optional section present.
C1_Witness ==
  \E i \in Slots :
    /\ Finished(i) /\ inv[i].flow = "correctWriting"
    /\ inv[i].outcome.status = "success"
    /\ "toneAnalysis" \in DOMAIN inv[i].outcome.value.f

\* C2: a correction input that lacks `text` or lacks `language` ends in an
\* InvalidInput failure, and the external model is never called for it.
C2_MissingFieldIsInvalidInput ==
  \A i \in Slots :
    (/\ inv[i].flow \in CorrectionFlows
     /\ ("text" \notin DOMAIN inv[i].input \/ "language" \notin DOMAIN inv[i].input)) =>
      /\ inv[i].calls = 0
      /\ inv[i].pc \in {"entered", "done"}
      /\ Finished(i) => inv[i].outcome = Thrown("InvalidInput")

\* C2 witness: a correction call without `language` has ended.
C2_Witness ==
  \E i \in Slots :
    /\ Finished(i) /\ inv[i].flow = "correctWriting"
    /\ "text" \in DOMAIN inv[i].input /\ "language" \notin DOMAIN inv[i].input
    /\ inv[i].outcome = Thrown("InvalidInput")

\* C3: the external-model call is issued only after the invocation's input
\* validation has completed and passed.
C3_CallOnlyAfterValidation ==
  \A i \in Slots :
    (inv[i].calls > 0 \/ inv[i].pc \in {"awaiting", "responded", "returned"}) =>
      inv[i].validation = "passed"

\* C3 witness: a call is out, waiting for the model.
C3_Witness ==
  \E i \in Slots : inv[i].pc = "awaiting" /\ inv[i].calls = 1 /\ inv[i].validation = "passed"

\* C4 (as claimed): correctWriting given an empty `text` and a valid
\* `language` is rejected as InvalidInput without any external call.
C4_EmptyTextRejected ==
  \A i \in Slots :
    (/\ inv[i].flow = "correctWriting"
     /\ "text" \in DOMAIN inv[i].input /\ inv[i].input["text"] = Str("")
     /\ "language" \in DOMAIN inv[i].input /\ inv[i].input["language"] = Str("English")) =>
      /\ inv[i].calls = 0
      /\ Finished(i) => inv[i].outcome = Thrown("InvalidInput")

\* C5: an invocation never issues a second call to the external model, and
\* one whose input was valid has issued exactly one by the time it ends,
\* whatever its outcome.
C5_ExactlyOneCall ==
  \A i \in Slots :
    /\ inv[i].calls <= 1
    /\ (Finished(i) /\ inv[i].validation = "passed") => inv[i].calls = 1

\* C5 witness: an invocation ended in an upstream failure after one call.
C5_Witness ==
  \E i \in Slots :
    Finished(i) /\ inv[i].outcome = Thrown("UpstreamFailure") /\ inv[i].calls = 1

\* C6: a model response that lacks the required output key ends in an
\* InvalidOutput failure, never in a success.
C6_MissingRequiredIsInvalidOutput ==
  \A i \in Slots :
    (/\ Finished(i)
     /\ inv[i].response.k = "obj"
     /\ RequiredKey(inv[i].flow) \notin DOMAIN inv[i].response.f) =>
      inv[i].outcome = Thrown("InvalidOutput")

\* C6 witness: a correction whose response had no correctedText has ended.
C6_Witness ==
  \E i \in Slots :
    /\ Finished(i) /\ inv[i].flow = "correctWriting"
    /\ inv[i].response = Obj(Field("toneAnalysis", Obj(Field("detectedTone", Str("formal")))))
    /\ inv[i].outcome = Thrown("InvalidOutput")

\* C7 (as claimed): when the model returns no object, every flow ends in
\* EmptyResponse, which differs from the outcome of a schema violation.
C7_NoObjectIsEmptyResponse ==
  \A i \in Slots :
    (Finished(i) /\ inv[i].response = NoObject) =>
      /\ inv[i].outcome = Thrown("EmptyResponse")
      /\ inv[i].outcome # Thrown("InvalidOutput")

\* C8: when the external call fails at the provider, the invocation ends in
\* UpstreamFailure, never in a success, and when onSubmit resumes from it both
\* correctionResult and translationResult are null and stay null.
C8_UpstreamFailureLeavesNoResult ==
  /\ [](\A i \in Slots :
          (Finished(i) /\ inv[i].response = ProviderError) =>
            /\ inv[i].outcome = Thrown("UpstreamFailure")
            /\ correctionResult = Null /\ translationResult = Null)
  /\ [][\A i \in Slots :
          (/\ Finished(i) /\ inv[i].caller = "ui"
           /\ inv[i].outcome = Thrown("UpstreamFailure")
           /\ inv'[i].pc = "idle") =>
            (correctionResult' = Null /\ translationResult' = Null /\ ~isLoading')]_vars

\* C8 witness: a request of the UI has ended in an upstream failure.
C8_Witness ==
  \E i \in Slots :
    /\ Finished(i) /\ inv[i].caller = "ui" /\ inv[i].response = ProviderError
    /\ inv[i].outcome = Thrown("UpstreamFailure")

\* Some expected failure mode occurred in invocation i.
FailureMode(i) ==
  \/ ~Conforms(InputSchema(inv[i].flow), Obj(inv[i].input))
  \/ inv[i].response = ProviderError
  \/ inv[i].response = NoObject
  \/ inv[i].response.k = "obj" /\ ~Conforms(OutputSchema(inv[i].flow), inv[i].response)

C10_RoundTrip ==
  \A i \in Slots :
    (/\ Finished(i)
     /\ inv[i].response.k = "obj"
     /\ Conforms(OutputSchema(inv[i].flow), inv[i].response)) =>
      /\ inv[i].outcome = Success(inv[i].response)
      /\ DOMAIN inv[i].outcome.value.f = DOMAIN inv[i].response.f

\* C10 witness: the response {correctedText: "x"} came back as the success of
\* a correction, with no optional key.
C10_Witness ==
  \E i \in Slots :
    /\ Finished(i) /\ inv[i].flow = "correctWriting"
    /\ inv[i].response = Obj(Field("correctedText", Str("x")))
    /\ inv[i].outcome.status = "success"
    /\ DOMAIN inv[i].outcome.value.f = {"correctedText"}

\* The toggles of a correction request and the section of the result each
\* one asks for.
SectionOf(toggle) ==
  CASE toggle = "analyzeTone" -> "toneAnalysis"
    [] toggle = "explainIdioms" -> "idiomExplanations"
    [] toggle = "suggestStructureVariations" -> "structureSuggestions"

Toggles == {"analyzeTone", "explainIdioms", "suggestStructureVariations"}

\* C11: neither the pipeline nor the UI filters a correction response by the
\* request's toggles.  A response that fits the output schema is the success
\* value whatever the toggles were (a section asked for may be absent, a
\* section not asked for may be present); the UI stores that value as it is
\* and renders every section the stored result holds, whatever the settings.
C11_ResponseNotFilteredByToggles ==
  /\ [](\A i \in Slots :
          (/\ Finished(i) /\ inv[i].flow = "correctWriting" /\ inv[i].caller = "ui"
           /\ inv[i].response.k = "obj"
           /\ Conforms(CorrectWritingOutputSchema, inv[i].response)) =>
            /\ inv[i].outcome.status = "success"
            /\ \A t \in Toggles :
                 SectionOf(t) \in DOMAIN inv[i].response.f =>
                   /\ SectionOf(t) \in DOMAIN inv[i].outcome.value.f
                   /\ inv[i].outcome.value.f[SectionOf(t)] = inv[i].response.f[SectionOf(t)])
  /\ [](\A t \in Toggles :
          (/\ mode = "correct" /\ correctionResult # Null
           /\ SectionOf(t) \in DOMAIN correctionResult.f
           /\ ~Falsy(correctionResult.f[SectionOf(t)])) =>
            SectionOf(t) \in RenderedSections)
  /\ [][\A i \in Slots :
          (/\ Finished(i) /\ inv[i].flow = "correctWriting" /\ inv[i].caller = "ui"
           /\ inv[i].outcome.status = "success"
           /\ inv'[i].pc = "idle") =>
            correctionResult' = inv[i].outcome.value]_vars

\* C11 witness: a request sent with analyzeTone off has succeeded with a
\* toneAnalysis section in its value, and one sent with explainIdioms on has
\* no idiomExplanations.
C11_Witness ==
  \E i \in Slots :
    /\ Finished(i) /\ inv[i].flow = "correctWriting" /\ inv[i].caller = "ui"
    /\ inv[i].input["analyzeTone"] = Bool(FALSE)
    /\ inv[i].input["explainIdioms"] = Bool(TRUE)
    /\ inv[i].outcome.status = "success"
    /\ "toneAnalysis" \in DOMAIN inv[i].outcome.value.f
    /\ "idiomExplanations" \notin DOMAIN inv[i].outcome.value.f

\* The fields of a flow's input that are optional or boolean.
OptionalFields(flow) ==
  {n \in DOMAIN InputSchema(flow).fields : InputSchema(flow).fields[n].optional}

\* Values a caller can give such a field.
FieldValues(n) ==
  CASE n = "correctionLevel" -> {Str("gentle"), Str("strict")}
    [] n = "language" -> {Str("English"), Str("Spanish")}
    [] OTHER -> Booleans

\* C12 (as claimed): every optional or boolean field of the input reaches the
\* rendered prompt with its value: the value a field holds is one of the
\* prompt's parts, and an input that differs in one such field renders a
\* different prompt.
C12_OptionalFieldsReachPrompt ==
  \A i \in Slots :
    inv[i].calls > 0 =>
      \A n \in OptionalFields(inv[i].flow) :
        /\ n \in DOMAIN inv[i].input =>
             \E k \in DOMAIN inv[i].prompt : inv[i].prompt[k] = Interpolate(inv[i].input, n)
        /\ \A v \in FieldValues(n) :
             (n \notin DOMAIN inv[i].input \/ inv[i].input[n] # v) =>
               RenderPrompt(inv[i].flow,
                            ParseInput(InputSchema(inv[i].flow), Field(n, v) @@ inv[i].input))
                 # inv[i].prompt

\* What the schema text gives as the defaults.
DeclaredDefault(n) ==
  CASE n = "correctionLevel" -> Str("standard")
    [] n \in {"flagGrammar", "flagSpelling", "flagPunctuation"} -> Bool(TRUE)
    [] n = "flagStyle" -> Bool(FALSE)

\* C14 (as claimed): when a correction input leaves out correctionLevel,
\* flagGrammar, flagSpelling, flagPunctuation or flagStyle, the record the
\* prompt is rendered from holds standard, true, true, true, false for it,
\* and the prompt does not render the field as empty.
C14_OmittedFieldsTakeDefaults ==
  \A i \in Slots :
    (inv[i].calls > 0 /\ inv[i].flow \in {"correctWriting", "correctWritingV2"}) =>
      \A n \in {"correctionLevel", "flagGrammar", "flagSpelling", "flagPunctuation", "flagStyle"} :
        n \notin DOMAIN inv[i].input =>
          /\ n \in DOMAIN inv[i].parsed
          /\ inv[i].parsed[n] = DeclaredDefault(n)
          /\ RenderPrompt(inv[i].flow, inv[i].parsed)
               = RenderPrompt(inv[i].flow, Field(n, DeclaredDefault(n)) @@ inv[i].parsed)

\* C15 (as claimed): a correction request whose caller has not chosen
\* analyzeTone, explainIdioms or suggestStructureVariations carries false for
\* each: a call that leaves the key out is handled as false, and a submit of
\* the UI before any settings change (no toast was raised yet) sends false.
C15_TogglesDefaultToFalse ==
  \A i \in Slots :
    (inv[i].pc # "idle" /\ inv[i].flow = "correctWriting") =>
      \A t \in Toggles :
        /\ (inv[i].caller = "ui" /\ toast = "none") =>
             (t \in DOMAIN inv[i].input /\ inv[i].input[t] = Bool(FALSE))
        /\ (inv[i].calls > 0 /\ t \notin DOMAIN inv[i].input) =>
             (t \in DOMAIN inv[i].parsed /\ inv[i].parsed[t] = Bool(FALSE))

OwnOutcome(i) ==
  IF ~Conforms(InputSchema(inv[i].flow), Obj(inv[i].input)) THEN Thrown("InvalidInput")
  ELSE IF inv[i].response = ProviderError THEN Thrown("UpstreamFailure")
  ELSE IF inv[i].response = NoObject
       THEN IF ChecksNullOutput(inv[i].flow) THEN Thrown("EmptyResponse")
            ELSE Thrown("InvalidOutput")
  ELSE IF Conforms(OutputSchema(inv[i].flow), inv[i].response) THEN Success(inv[i].response)
  ELSE Thrown("InvalidOutput")

\* C16: under every interleaving of invocations in progress, each ends with
\* the outcome its own input and its own response determine, and a step of
\* one invocation changes nothing of another.
C16_InvocationsAreIndependent ==
  /\ [](\A i \in ConcSlots : Finished(i) => inv[i].outcome = OwnOutcome(i))
  /\ [][\A i \in ConcSlots : \A j \in ConcSlots :
          (i # j /\ inv'[i] # inv[i]) => inv'[j] = inv[j]]_vars

\* C16 witness: two invocations of one flow with equal inputs have ended side
\* by side, one in success and one in an upstream failure.
C16_Witness ==
  \E i \in ConcSlots : \E j \in ConcSlots :
    /\ i # j /\ Finished(i) /\ Finished(j)
    /\ inv[i].flow = inv[j].flow /\ inv[i].input = inv[j].input
    /\ inv[i].outcome.status = "success"
    /\ inv[j].outcome = Thrown("UpstreamFailure")

\* onSubmit's continuation runs for request i in this step.
Resumes(i) == inv[i].pc = "done" /\ inv[i].caller = "ui" /\ inv'[i].pc = "idle"

\* C17 (as claimed): when the result of a request arrives after the user
\* switched mode while it was pending, the arrival changes nothing the user
\* still sees: no card appears and no toast is raised.
C17_LateArrivalChangesNothing ==
  [][\A i \in Slots :
      (Resumes(i) /\ inv[i].abandoned) =>
        /\ RenderedSections' = RenderedSections
        /\ RenderedTranslation' = RenderedTranslation
        /\ toast' = toast]_vars

\* C17 (amended): the result of a request that arrives after the user
\* switched mode while it was pending is still delivered: the continuation
\* sets isLoading to false and stores a success in the request's own result
\* variable, or raises the error toast on a failure; it changes nothing else
\* (mode, text, languages, settings, form errors, the other result), and a
\* card is rendered for it only if the UI is in the request's mode again.
C17_LateArrivalTouchesOnlyItsResult ==
  [][\A i \in Slots :
      (Resumes(i) /\ inv[i].abandoned) =>
        /\ UNCHANGED <<settings, mode, targetLanguage, formText, inputLanguage, formErrors>>
        /\ ~isLoading'
        /\ IF inv[i].outcome.status = "success"
           THEN /\ toast' = toast
                /\ IF inv[i].flow = "correctWriting"
                   THEN /\ correctionResult' = inv[i].outcome.value
                        /\ translationResult' = translationResult
                   ELSE /\ translationResult' = inv[i].outcome.value.f.translatedText
                        /\ correctionResult' = correctionResult
           ELSE /\ toast' \in {"Error Correcting Text", "Error Translating Text"}
                /\ correctionResult' = correctionResult
                /\ translationResult' = translationResult
        /\ RenderedSections' # {} => (inv[i].flow = "correctWriting" /\ mode = "correct")
        /\ RenderedTranslation' # Null => (inv[i].flow = "translateContent" /\ mode = "translate")]_vars

\* C17 witness: a correction is held while the UI is in translate mode: it
\* arrived after the mode was switched (a mode change clears both results).
C17_Witness ==
  /\ mode = "translate" /\ correctionResult # Null /\ ~isLoading
  /\ \A i \in Slots : inv[i].pc = "idle"

\* C18 (as claimed): every flow invocation eventually completes, whether or
\* not the external service answers.
C18_EveryInvocationCompletes ==
  \A i \in Slots : (inv[i].pc # "idle") ~> Finished(i)

\* The requests of the UI that are in flight.
InFlight == {i \in DOMAIN inv : inv[i].caller = "ui"}

ErrorTitle(flow) ==
  IF flow = "correctWriting" THEN "Error Correcting Text" ELSE "Error Translating Text"

\* The continuation of request i runs with a rejected call.
ResumesFailed(i) == Resumes(i) /\ inv[i].outcome.status # "success"

SettingsFields == DOMAIN defaultSettings

\* Slot i takes a request of the UI in this step.
StartsRequest(i) == inv[i].pc = "idle" /\ inv'[i].pc # "idle" /\ inv'[i].caller = "ui"

\* C22: every correction request carries the form's text and input language
\* and the eight fields of the settings saved at the moment of submit, and
\* nothing else; no later step changes the record of a pending request, so
\* settings saved while it is in flight reach only the next request.
C22_RequestCarriesSettingsAtSubmit ==
  [][\A i \in DOMAIN inv :
      /\ (StartsRequest(i) /\ inv'[i].flow = "correctWriting") =>
           /\ DOMAIN inv'[i].input = SettingsFields \cup {"text", "language"}
           /\ inv'[i].input["text"] = Str(formText)
           /\ inv'[i].input["language"] = Str(inputLanguage)
           /\ \A k \in SettingsFields : inv'[i].input[k] = settings[k]
      /\ (inv[i].caller = "ui" /\ inv'[i].caller = "ui") => inv'[i].input = inv[i].input]_vars

\* C22 witness: settings were saved while a correction request is in flight:
\* the request still holds the settings of its submit.
C22_Witness ==
  \E i \in DOMAIN inv :
    /\ inv[i].caller = "ui" /\ inv[i].flow = "correctWriting" /\ inv[i].pc = "awaiting"
    /\ toast = "Settings Updated"
    /\ inv[i].input["analyzeTone"] # settings["analyzeTone"]
    /\ inv[i].input["correctionLevel"] # settings["correctionLevel"]

\* C23: isLoading returns to false in the step in which onSubmit continues
\* after its call resolved or rejected, on every path (correction or
\* translation, success or failure; the missing-target-language path ends
\* inside the submit step itself), and isLoading never holds once no request
\* of the UI is in flight.
C23_LoadingEndsWithTheRequest ==
  [][/\ \A i \in DOMAIN inv : Resumes(i) => ~isLoading'
     /\ isLoading' => InFlight' # {}
     /\ \A i \in DOMAIN inv :
          (inv[i].pc = "done" /\ inv[i].caller = "ui") => ENABLED Resume(i)]_vars

\* C23 witness: a correction request was rejected and its continuation has
\* run: the error toast is up and the page is no longer loading.
C23_Witness ==
  /\ toast = "Error Correcting Text" /\ mode = "correct"
  /\ ~isLoading /\ InFlight = {}

\* C24: in every reachable state of CorrectionInterface at most one of
\* correctionResult and translationResult is non-null.
C24_AtMostOneResult == correctionResult = Null \/ translationResult = Null

\* C24 witness: a translation that arrived after the user went back to
\* correct mode is held (the mode change had cleared both results), and the
\* form is ready for a correction request.
C24_Witness ==
  /\ mode = "correct" /\ translationResult # Null /\ correctionResult = Null
  /\ ~isLoading /\ formText # ""

\* Every value LanguageSelector offers.
OfferedLanguages ==
  {"en-US", "es-ES", "fr-FR", "de-DE", "ja-JP", "zh-CN", "ko-KR", "it-IT", "pt-BR",
   "ru-RU", "ar-SA", "hi-IN", "bn-BD", "en-GB", "es-MX", "pt-PT", "zh-TW"}

\* C25 (as claimed): every language value sent in a request (language of a
\* correction, targetLanguage of a translation) is one of the values
\* LanguageSelector offers, in every reachable state, the user having touched
\* a selector or not.
C25_SentLanguagesAreOffered ==
  \A i \in DOMAIN inv :
    inv[i].caller = "ui" =>
      /\ inv[i].flow = "correctWriting" => inv[i].input["language"].s \in OfferedLanguages
      /\ inv[i].flow = "translateContent" => inv[i].input["targetLanguage"].s \in OfferedLanguages

\* C26: a change of mode (correct <-> translate) clears both results and the
\* form's validation errors and leaves the entered text, the input language,
\* the target language and the saved settings unchanged.
C26_ModeChangeClearsResultsOnly ==
  [][mode' # mode =>
       /\ correctionResult' = Null /\ translationResult' = Null
       /\ formErrors' = {}
       /\ UNCHANGED <<formText, inputLanguage, targetLanguage, settings>>]_vars

\* C26 witness: the page is in translate mode with a text, a chosen input
\* language and saved settings that were all entered in correct mode, and
\* with no result and no validation error.
C26_Witness ==
  /\ mode = "translate" /\ formText = "a" /\ inputLanguage = "es-ES"
  /\ settings # defaultSettings /\ targetLanguage = "Spanish"
  /\ correctionResult = Null /\ translationResult = Null /\ formErrors = {}

\* C27: Reset empties the text and sets both results to null, leaves the
\* input language, the target language, the mode and the saved settings
\* unchanged, and is not taken while a request is in flight.
C27_ResetKeepsSelections ==
  [][handleReset =>
       /\ formText' = "" /\ correctionResult' = Null /\ translationResult' = Null
       /\ UNCHANGED <<inputLanguage, targetLanguage, mode, settings>>
       /\ ~isLoading /\ InFlight = {}]_vars

\* C27 witness: Reset was pressed in translate mode with languages and
\* settings other than the initial ones: they are all still there.
C27_Witness ==
  /\ toast = "Reset" /\ formText = ""
  /\ mode = "translate" /\ inputLanguage = "es-ES" /\ targetLanguage = "en-US"
  /\ settings # defaultSettings
  /\ correctionResult = Null /\ translationResult = Null

\* C28: an edit made inside the settings panel changes the panel's draft and
\* nothing else; the settings used for requests change only when Save is
\* pressed, and right after Save they equal the draft in all eight fields;
\* a correction request takes its eight fields from the saved settings, so
\* unsaved edits never reach it.
C28_OnlySaveChangesSettings ==
  [][/\ (onValueChange \/ onCheckedChange) =>
          UNCHANGED <<inv, isLoading, correctionResult, translationResult, settings, mode,
                      targetLanguage, formText, inputLanguage, formErrors, toast>>
     /\ settings' # settings => handleSave
     /\ handleSave => \A k \in SettingsFields : settings'[k] = currentSettings[k]
     /\ \A i \in DOMAIN inv :
          (StartsRequest(i) /\ inv'[i].flow = "correctWriting") =>
            \A k \in SettingsFields : inv'[i].input[k] = settings[k]]_vars

\* C28 witness: a correction request was submitted while the panel held
\* unsaved edits: the request carries the saved settings, not the draft.
C28_Witness ==
  \E i \in DOMAIN inv :
    /\ inv[i].caller = "ui" /\ inv[i].flow = "correctWriting" /\ inv[i].pc = "entered"
    /\ currentSettings["analyzeTone"] # settings["analyzeTone"]
    /\ currentSettings["correctionLevel"] # settings["correctionLevel"]
    /\ \A k \in SettingsFields : inv[i].input[k] = settings[k]
    /\ settings # defaultSettings

\* C29 (as claimed): isRecording is false once the recognition session is
\* over, whichever way it ended (a result, an error, the recognizer ending on
\* its own, the user stopping it): isRecording is never true while no
\* recognition session is active.
C29_RecordingOnlyWhileSessionActive == isRecording => recognition # "inactive"

\* The steps that clear both results: a submit that passed validation, a
\* mode change, a reset.
ClearsResults ==
  \/ \E i \in DOMAIN inv : SubmitVoice(i) /\ FormSchemaErrors = {}
  \/ handleModeChangeVoice
  \/ handleResetVoice

\* C30 (as claimed): after a submit, a mode change or a reset, no speech of a
\* previously shown result is playing or will start playing: right after the
\* step that cleared both results isSpeaking is false and no utterance is
\* pending, in every interleaving with the utterance's callbacks.
C30_NoSpeechAfterResultsCleared ==
  [][ClearsResults => (~isSpeaking' /\ utterance' = "none")]_vars

====
